---- MODULE Spec2Model ----
(***************************************************************************)
(* Model of src/hooks/useDerivedState.ts: useDerivedState and              *)
(* useDerivedStateField, together with the part of the host (React         *)
(* useState / useCallback) that the two hooks talk to.                     *)
(*                                                                         *)
(* Objects live in a heap and are referred to by identity, so that         *)
(* "a new object" and "the same object, changed" are different things.     *)
(* Functions are closures: a record of the place that created them, their  *)
(* ordinal among the closures created there (their identity) and what      *)
(* they captured.                                                          *)
(***************************************************************************)
EXTENDS Integers, Sequences, FiniteSets, TLC

\* ---------------------------------------------------------------- bounds

NumFields == 2      \* how many of the form's fields the model uses
NumVals == 1        \* how many values a handler may pass to a setter
MaxObjs == 3        \* objects ever allocated
MaxQueue == 1       \* pending parent-state updates
MaxCalls == 2       \* hook calls (renders) in one behaviour

\* ---------------------------------------------------------------- values

\* The fields of README's UserFormState.
FieldNames == <<"firstName", "age", "lastName", "email">>
Keys == {FieldNames[i] : i \in 1..NumFields}
\* The value every field of the initial form state holds ('' and 0 in the
\* README's useState call), and the values handlers pass to the setters.
InitialValue == 0
Vals == 1..NumVals

\* What reading a property an object does not have yields (state[field]).
Undefined == 0 - 1

\* JavaScript values passed for the setState and field parameters.
Str(k) == [t |-> "string", s |-> k]
\* The setter React.useState returns; the same function in every render.
Dispatch == [t |-> "function", s |-> "setState"]
NoArg == [t |-> "undefined", s |-> "undefined"]

IsCallable(x) == x.t = "function"
\* Property-key coercion of state[field] and { [field]: ... }.
ToKey(x) == IF x.t = "string" THEN x.s ELSE "function () { [native code] }"

\* An object is a finite map from property keys to values. The object the
\* component passes to React.useState:
InitialState == [k \in Keys |-> InitialValue]
Read(obj, k) == IF k \in DOMAIN obj THEN obj[k] ELSE Undefined

\* ---------------------------------------------------------------- closures

\* Functions the caller of useDerivedState defines at module level: their
\* identity does not change between renders (id 0).
CallerGetterFn(k) ==
  [site |-> "callerGetter", id |-> 0, kind |-> "field", field |-> Str(k)]
CallerUpdaterFn(k) ==
  [site |-> "callerUpdater", id |-> 0, kind |-> "field", field |-> Str(k)]
CallerThrowingGetter ==
  [site |-> "callerGetter", id |-> 0, kind |-> "throws", field |-> NoArg]
CallerThrowingUpdater ==
  [site |-> "callerUpdater", id |-> 0, kind |-> "throws", field |-> NoArg]

\* (state: O) => state[field], the n-th one created at its call site.
FieldGetterFn(n, field) ==
  [site |-> "line44getter", id |-> n, kind |-> "field", field |-> field]
\* (state, newValue) => ({ ...state, [field]: newValue }), the n-th one
\* created at its call site.
FieldUpdaterFn(n, field) ==
  [site |-> "line44updater", id |-> n, kind |-> "field", field |-> field]

NoFn == [site |-> "none", id |-> 0, kind |-> "none", field |-> NoArg]

Ok(h, r, v) == [threw |-> FALSE, err |-> "none", heap |-> h, ref |-> r, val |-> v]
Threw(h, r, e) == [threw |-> TRUE, err |-> e, heap |-> h, ref |-> r, val |-> Undefined]

\* Variant: state.field, the property named "field".
FieldGetterDot(h, o, field) == Ok(h, o, Read(h[o], "field"))

\* state[field]
FieldGetter(h, o, field) == Ok(h, o, Read(h[o], ToKey(field)))

\* Variant: { [field]: newValue }, without the spread.
SpreadWithout(obj, k, v) == [x \in {k} |-> v]

\* { ...state, [field]: newValue }: a new object with the own properties of
\* state, and field set to newValue.
SpreadWith(obj, k, v) == [x \in DOMAIN obj \cup {k} |-> IF x = k THEN v ELSE obj[x]]

\* Variant: state[field] = newValue; return state.
FieldUpdaterInPlace(h, o, field, v) ==
  Ok([h EXCEPT ![o] = SpreadWith(h[o], ToKey(field), v)], o, Undefined)

\* (state, newValue) => ({ ...state, [field]: newValue }): allocates the
\* object it returns.
FieldUpdater(h, o, field, v) ==
  Ok(Append(h, SpreadWith(h[o], ToKey(field), v)), Len(h) + 1, Undefined)

\* getter(o)
CallGetter(g, h, o) ==
  IF g.kind = "throws" THEN Threw(h, o, "GetterError")
  ELSE FieldGetter(h, o, g.field)

\* updater(o, v)
CallUpdater(u, h, o, v) ==
  IF u.kind = "throws" THEN Threw(h, o, "UpdaterError")
  ELSE FieldUpdater(h, o, u.field, v)

\* ---------------------------------------------------------------- hooks

\* One useCallback cell of the host: the dependency list and the callback
\* of the last call that stored one.
EmptyMemo == [set |-> FALSE, deps |-> <<>>, cb |-> NoFn]

\* useCallback(fn, deps): the stored callback when every dependency is
\* identical to the stored one, otherwise fn, which is then stored.
UseCallback(m, fn, deps) ==
  IF m.set /\ m.deps = deps
  THEN [cb |-> m.cb, memo |-> m]
  ELSE [cb |-> fn, memo |-> [set |-> TRUE, deps |-> deps, cb |-> fn]]

NoSetter == [site |-> "none", id |-> 0, currentState |-> 0, setState |-> NoArg,
             updater |-> NoFn]

\* The closure of lines 21-23, the n-th one created at its call site: it
\* captures the scope of useDerivedState.
SetterFn(n, currentState, setState, updater) ==
  [site |-> "line21", id |-> n, currentState |-> currentState,
   setState |-> setState, updater |-> updater]

\* The closure (o: O) => updater(o, newValue) of line 22.
TransformFn(s, newValue) ==
  [site |-> "line22", currentState |-> s.currentState, updater |-> s.updater,
   newValue |-> newValue]

\* Variant: () => updater(currentState, newValue).
TransformBodyStale(t, h, o) == CallUpdater(t.updater, h, t.currentState, t.newValue)

\* Body of the line 22 closure: updater(o, newValue).
TransformBody(t, h, o) == CallUpdater(t.updater, h, o, t.newValue)

\* Variant: a setter that hands its transform to setState twice.
SetDerivedStateTwice(s, newValue) ==
  IF ~IsCallable(s.setState)
  THEN [threw |-> TRUE, err |-> "TypeError", requests |-> <<>>]
  ELSE [threw |-> FALSE, err |-> "none",
        requests |-> <<TransformFn(s, newValue), TransformFn(s, newValue)>>]

\* Body of the returned setter: setState((o) => updater(o, newValue)).
\* requests: the arguments of the calls of setState it made, in order.
SetDerivedState(s, newValue) ==
  IF ~IsCallable(s.setState)
  THEN [threw |-> TRUE, err |-> "TypeError", requests |-> <<>>]
  ELSE [threw |-> FALSE, err |-> "none", requests |-> <<TransformFn(s, newValue)>>]

\* Variant: the getter call wrapped in a try/catch that yields undefined.
UseDerivedStateCatching(m, n, h, currentState, setState, getter, updater) ==
  LET d == CallGetter(getter, h, currentState)
      cb == UseCallback(m, SetterFn(n, currentState, setState, updater),
                        <<currentState, setState, updater>>)
  IN  [threw |-> FALSE, err |-> "none", value |-> d.val, setter |-> cb.cb,
       memo |-> cb.memo, requests |-> <<>>]

\* Variant: the derived value computed from the state remembered with the
\* callback instead of from currentState.
UseDerivedStateCached(m, n, h, currentState, setState, getter, updater) ==
  LET d == CallGetter(getter, h, IF m.set THEN m.deps[1] ELSE currentState)
      cb == UseCallback(m, SetterFn(n, currentState, setState, updater),
                        <<currentState, setState, updater>>)
  IN  IF d.threw
      THEN [threw |-> TRUE, err |-> d.err, value |-> Undefined, setter |-> NoSetter,
            memo |-> m, requests |-> <<>>]
      ELSE [threw |-> FALSE, err |-> "none", value |-> d.val, setter |-> cb.cb,
            memo |-> cb.memo, requests |-> <<>>]

\* useDerivedState(currentState, setState, getter, updater), with m the
\* useCallback cell of the call site and n the identity of the closures the
\* call creates.
\* requests: the arguments of the calls of setState made during the call.
UseDerivedState(m, n, h, currentState, setState, getter, updater) ==
  LET d == CallGetter(getter, h, currentState)
      cb == UseCallback(m, SetterFn(n, currentState, setState, updater),
                        <<currentState, setState, updater>>)
  IN  IF d.threw
      THEN [threw |-> TRUE, err |-> d.err, value |-> Undefined, setter |-> NoSetter,
            memo |-> m, requests |-> <<>>]
      ELSE [threw |-> FALSE, err |-> "none", value |-> d.val, setter |-> cb.cb,
            memo |-> cb.memo, requests |-> <<>>]

\* useDerivedStateField(currentState, setState, field)
UseDerivedStateField(m, n, h, currentState, setState, field) ==
  UseDerivedState(m, n, h, currentState, setState,
                  FieldGetterFn(n, field), FieldUpdaterFn(n, field))

\* ---------------------------------------------------------------- state

VARIABLES
  heap,        \* the objects allocated so far, by identity (1..Len(heap))
  state,       \* the host's state cell: the identity of the parent state
  queue,       \* transforms handed to setState that the host has not applied
  memo,        \* the useCallback cell of each call site of the component
  handed,      \* the setters the hooks have returned (handlers may hold them)
  calls,       \* hook calls made so far
  lastCall,    \* the last hook call: its arguments and what it returned
  lastInvoke,  \* how the last call of a returned setter ended
  lastApply,   \* the last transform the host ran, and how it ended
  expected     \* per field, the value of the last setter call that reached setState

vars == <<heap, state, queue, memo, handed, calls, lastCall, lastInvoke, lastApply,
          expected>>

\* The component's call sites: one useDerivedStateField per field (README
\* lines 112-115) and one direct use of useDerivedState.
Sites == Keys \cup {"custom"}

\* The getter/updater pairs the direct user of useDerivedState passes: a
\* lawful pair for its first field, and the two pairs with a function that
\* throws.
CallerPairs ==
  { <<CallerGetterFn(FieldNames[1]), CallerUpdaterFn(FieldNames[1])>>,
    <<CallerThrowingGetter, CallerUpdaterFn(FieldNames[1])>>,
    <<CallerGetterFn(FieldNames[1]), CallerThrowingUpdater>> }

NoCall == [n |-> 0, site |-> "none", form |-> "none", currentState |-> 0,
           setState |-> NoArg, field |-> NoArg, getter |-> NoFn, updater |-> NoFn,
           threw |-> FALSE, err |-> "none", value |-> Undefined, setter |-> NoSetter,
           rereads |-> FALSE, recalls |-> FALSE]

NoInvoke == [done |-> FALSE, threw |-> FALSE, err |-> "none"]

NoApply == [done |-> FALSE, captured |-> 0, before |-> 0, after |-> 0,
            field |-> "none", newValue |-> Undefined, threw |-> FALSE, err |-> "none"]

Init ==
  /\ heap = <<InitialState>>
  /\ state = 1
  /\ queue = <<>>
  /\ memo = [c \in Sites |-> EmptyMemo]
  /\ handed = {}
  /\ calls = 0
  /\ lastCall = NoCall
  /\ lastInvoke = NoInvoke
  /\ lastApply = NoApply
  /\ expected = [k \in Keys |-> Read(heap[1], k)]

\* Two functions with the same code and the same captured values.
SameFn(a, b) == a.site = b.site /\ a.kind = b.kind /\ a.field = b.field

\* The identity of the closures a hook call at a call site creates: their
\* ordinal among the closures created there. m is the site's useCallback
\* cell; every closure of the site that is still referenced was stored in
\* it at some time, with a smaller ordinal.
NextId(m) == IF m.set THEN m.cb.id + 1 ELSE 1

\* What a hook call leaves behind: the host keeps the useCallback cell and
\* queues what the call handed to setState, the component keeps the returned
\* setter. rereads: the call before this one read the same parent state with
\* the same getter. recalls: the call before this one was at the same call
\* site with identical arguments (for the field hook the arguments are
\* currentState, setState and field; the two arrow functions are its own).
Returned(site, form, setState, field, getter, updater, r) ==
  /\ calls' = calls + 1
  /\ memo' = [memo EXCEPT ![site] = r.memo]
  /\ handed' = IF r.threw THEN handed ELSE handed \cup {r.setter}
  /\ queue' = queue \o r.requests
  /\ lastCall' = [n |-> calls + 1, site |-> site, form |-> form,
                  currentState |-> state, setState |-> setState, field |-> field,
                  getter |-> getter, updater |-> updater,
                  threw |-> r.threw, err |-> r.err, value |-> r.value,
                  setter |-> r.setter,
                  rereads |-> /\ lastCall.n > 0 /\ ~lastCall.threw /\ ~r.threw
                              /\ lastCall.currentState = state
                              /\ SameFn(lastCall.getter, getter),
                  recalls |-> /\ lastCall.n > 0 /\ ~lastCall.threw /\ ~r.threw
                              /\ lastCall.site = site
                              /\ lastCall.currentState = state
                              /\ lastCall.setState = setState
                              /\ lastCall.field = field
                              /\ (site = "custom" => lastCall.updater = updater)]
  /\ UNCHANGED <<heap, state, lastInvoke, lastApply, expected>>

\* A render calls useDerivedStateField(state, setState, f).
CallField(f) ==
  /\ calls < MaxCalls
  /\ Returned(f, "signature", Dispatch, Str(f),
              FieldGetterFn(NextId(memo[f]), Str(f)),
              FieldUpdaterFn(NextId(memo[f]), Str(f)),
              UseDerivedStateField(memo[f], NextId(memo[f]), heap, state, Dispatch,
                                   Str(f)))

\* A render calls useDerivedStateField(state, f, setState): the argument
\* order of the README (lines 112-115, 173-176).
CallFieldReadme(f) ==
  /\ calls < MaxCalls
  /\ Returned(f, "readme", Str(f), Dispatch,
              FieldGetterFn(NextId(memo[f]), Dispatch),
              FieldUpdaterFn(NextId(memo[f]), Dispatch),
              UseDerivedStateField(memo[f], NextId(memo[f]), heap, state, Str(f),
                                   Dispatch))

\* A render calls useDerivedState(state, setState, g, u) with functions of
\* the caller.
CallDerived(g, u) ==
  /\ calls < MaxCalls
  /\ Returned("custom", "signature", Dispatch, NoArg, g, u,
              UseDerivedState(memo["custom"], NextId(memo["custom"]), heap, state,
                              Dispatch, g, u))

\* A handler calls a setter some render returned, with value v. The host's
\* setState queues each transform it is given.
Invoke(s, v) ==
  LET r == SetDerivedState(s, v) IN
  /\ (r.requests = <<>> \/ Len(queue) < MaxQueue)
  /\ queue' = queue \o r.requests
  /\ lastInvoke' = [done |-> TRUE, threw |-> r.threw, err |-> r.err]
  /\ expected' = IF r.threw \/ r.requests = <<>> \/ s.updater.kind # "field"
                 THEN expected
                 ELSE [expected EXCEPT ![ToKey(s.updater.field)] = v]
  /\ UNCHANGED <<heap, state, memo, handed, calls, lastCall, lastApply>>

\* The host runs the oldest pending transform on the current parent state
\* and stores what it returns; a transform that throws stores nothing.
Apply ==
  /\ queue # <<>>
  /\ Len(heap) < MaxObjs
  /\ LET t == Head(queue)
         r == TransformBody(t, heap, state)
     IN  /\ heap' = r.heap
         /\ state' = IF r.threw THEN state ELSE r.ref
         /\ lastApply' = [done |-> TRUE, captured |-> t.currentState,
                          before |-> state, after |-> state',
                          field |-> ToKey(t.updater.field), newValue |-> t.newValue,
                          threw |-> r.threw, err |-> r.err]
  /\ queue' = Tail(queue)
  /\ UNCHANGED <<memo, handed, calls, lastCall, lastInvoke, expected>>

Next ==
  \/ \E f \in Keys : CallField(f)
  \/ \E p \in CallerPairs : CallDerived(p[1], p[2])
  \/ \E s \in handed, v \in Vals : Invoke(s, v)
  \/ Apply

Spec == Init /\ [][Next]_vars

\* A component that uses only useDerivedStateField, one call site per field
\* (the README's UserForm with the arguments in the order of the signature).
NextField ==
  \/ \E f \in Keys : CallField(f)
  \/ \E s \in handed, v \in Vals : Invoke(s, v)
  \/ Apply

SpecField == Init /\ [][NextField]_vars

\* A component that uses only useDerivedState, with its own getter and
\* updater.
NextDerived ==
  \/ \E p \in CallerPairs : CallDerived(p[1], p[2])
  \/ \E s \in handed, v \in Vals : Invoke(s, v)
  \/ Apply

SpecDerived == Init /\ [][NextDerived]_vars

\* A component some of whose renders use the README's argument order.
NextReadme ==
  \/ Next
  \/ \E f \in Keys : CallFieldReadme(f)

SpecReadme == Init /\ [][NextReadme]_vars

\* ---------------------------------------------------------------- claims

HeapIds == 1..Len(heap)

\* A step in which a hook was called.
CallStep == calls' = calls + 1

\* C1. Setter delegation: one call of a returned setter with v calls the
\* parent setState exactly once, and the transform it passes, applied to
\* any parent state o, returns what updater(o, v) returns.
C1_SetterDelegation ==
  [][\A s \in handed, v \in Vals :
       Invoke(s, v) =>
         /\ Len(queue') = Len(queue) + 1
         /\ SubSeq(queue', 1, Len(queue)) = queue
         /\ \A o \in HeapIds :
              TransformBody(queue'[Len(queue')], heap, o)
                = CallUpdater(s.updater, heap, o, v)]_vars

\* A transform of a field setter is pending while the parent state already
\* holds more than one object it could be applied to.
C1_Witness ==
  /\ lastInvoke.done /\ ~lastInvoke.threw
  /\ queue # <<>>
  /\ Len(heap) >= 2
  /\ queue[Len(queue)].updater.kind = "field"

\* C2 as stated. The parent state a setter call leads to is
\* updater(currentState, v), with currentState the state the setter's hook
\* call was given, also when another update was applied in between.
C2_ReplacesWithCaptured ==
  [][(Apply /\ Head(queue).updater.kind = "field") =>
       heap'[state'] = SpreadWith(heap[Head(queue).currentState],
                                  ToKey(Head(queue).updater.field),
                                  Head(queue).newValue)]_vars

\* C2 as amended. The parent state a setter call leads to is updater(o, v),
\* with o the parent state at the time the host runs the transform; it is
\* updater(currentState, v) when the parent state is still the one the
\* setter's hook call was given.
C2_ReplacesWithCurrent ==
  [][(Apply /\ Head(queue).updater.kind = "field") =>
       /\ heap'[state'] = SpreadWith(heap[state],
                                     ToKey(Head(queue).updater.field),
                                     Head(queue).newValue)
       /\ (state = Head(queue).currentState =>
             heap'[state'] = SpreadWith(heap[Head(queue).currentState],
                                        ToKey(Head(queue).updater.field),
                                        Head(queue).newValue))]_vars

\* The host has run the transform of a setter whose hook call saw a parent
\* state that had been replaced by a different one in the meantime.
C2_Witness ==
  /\ lastApply.done /\ ~lastApply.threw
  /\ lastApply.captured # lastApply.before
  /\ heap[lastApply.captured] # heap[lastApply.before]
  /\ heap[lastApply.after] # heap[lastApply.before]

\* C3. Round trip of the field pair: for every parent state o, field and
\* value v, the getter of useDerivedStateField applied to what its updater
\* returns for (o, v) is v; and a field hook call on the state an applied
\* field transform produced returns the value that transform wrote.
\* (Every object is the parent state in the state that allocates it, so o
\* ranges over every object.)
C3_RoundTrip ==
  /\ \A f \in Keys, v \in Vals :
       LET u == CallUpdater(FieldUpdaterFn(0, Str(f)), heap, state, v)
           g == CallGetter(FieldGetterFn(0, Str(f)), u.heap, u.ref)
       IN  ~u.threw /\ ~g.threw /\ g.val = v
  /\ ( /\ lastApply.done /\ ~lastApply.threw
       /\ lastCall.site \in Keys /\ ~lastCall.threw
       /\ lastCall.currentState = lastApply.after
       /\ lastCall.field = Str(lastApply.field) )
     => lastCall.value = lastApply.newValue

\* A field hook call has read back a value other than the initial one from
\* the state an applied transform for its field produced.
C3_Witness ==
  /\ lastApply.done /\ ~lastApply.threw
  /\ lastCall.site \in Keys /\ ~lastCall.threw
  /\ lastCall.currentState = lastApply.after
  /\ lastCall.field = Str(lastApply.field)
  /\ lastCall.value = lastApply.newValue
  /\ lastApply.newValue # InitialValue

\* C4. Non-interference of the field updater: for every parent state o,
\* field, value v and other key f2, what the updater returns has at f2 what
\* o has, and has the key set of o when field is a key of o; and o itself
\* is as it was.
C4_NonInterference ==
  \A f \in Keys, v \in Vals :
    LET u == CallUpdater(FieldUpdaterFn(0, Str(f)), heap, state, v)
        old == heap[state]
        new == u.heap[u.ref]
    IN  /\ \A f2 \in (Keys \cup DOMAIN old) \ {f} : Read(new, f2) = Read(old, f2)
        /\ (f \in DOMAIN old => DOMAIN new = DOMAIN old)
        /\ new[f] = v

\* An applied field transform changed its field in an object that holds a
\* value other than the initial one in another field, and left that one.
C4_Witness ==
  /\ lastApply.done /\ ~lastApply.threw
  /\ lastApply.field \in Keys
  /\ heap[lastApply.after][lastApply.field] # heap[lastApply.before][lastApply.field]
  /\ \E f2 \in Keys \ {lastApply.field} :
       /\ heap[lastApply.before][f2] # InitialValue
       /\ heap[lastApply.after][f2] = heap[lastApply.before][f2]

\* C5. README call form: useDerivedStateField(state, 'firstName', setState)
\* returns the current value of state.firstName, and calling the returned
\* setter updates the parent state (it does not fail).
C5_ReadmeForm ==
  /\ (lastCall.form = "readme" /\ ~lastCall.threw) =>
       lastCall.value = Read(heap[lastCall.currentState], lastCall.setState.s)
  /\ lastInvoke.done => ~lastInvoke.threw

\* C6. Idempotent read: the value a hook call returns is getter(currentState);
\* a call that reads the same parent state with the same getter as the call
\* before it returns the same value; and a hook call neither calls setState
\* nor changes the parent state.
C6_IdempotentRead ==
  [][CallStep =>
       /\ LET d == CallGetter(lastCall'.getter, heap, state)
          IN  ~d.threw => (~lastCall'.threw /\ lastCall'.value = d.val)
       /\ lastCall'.rereads => lastCall'.value = lastCall.value
       /\ queue' = queue /\ state' = state /\ heap' = heap]_vars

\* A direct useDerivedState call has read the same parent state with the
\* same getter as the call before it and returned that state's value.
C6_Witness ==
  /\ lastCall.rereads
  /\ lastCall.site = "custom"
  /\ lastCall.value = heap[lastCall.currentState][FieldNames[1]]

\* C7. Setter identity: a hook call at the same call site with identical
\* currentState, setState and field (or updater) as the call before it
\* returns the identical setter.
C7_StableSetter ==
  [][(CallStep /\ lastCall'.recalls) => lastCall'.setter = lastCall.setter]_vars

C9_NoMutation ==
  [][/\ Len(heap') >= Len(heap)
     /\ \A i \in HeapIds : heap'[i] = heap[i]
     /\ state' # state => state' \notin HeapIds]_vars

\* Two updates were applied and the first parent state still holds its
\* initial values.
C9_Witness ==
  /\ lastApply.done /\ ~lastApply.threw
  /\ Len(heap) >= 3
  /\ state # 1
  /\ heap[1] = InitialState
  /\ heap[state] # InitialState

\* A transform in the queue that writes field f.
Pending(f) ==
  \E i \in 1..Len(queue) :
    queue[i].updater.kind = "field" /\ ToKey(queue[i].updater.field) = f

====
